---- MODULE Spec2Model ----
(***************************************************************************)
(* Model of the Azure Computer Vision demo scripts: src/main.py (request   *)
(* functions, demo drivers and the annotation renderer) and the three SDK  *)
(* samples src/OCR.py, src/caption.py, src/objects.py.                     *)
(*                                                                         *)
(* One behaviour of Spec is one run of one entry point.  The environment   *)
(* (the two configuration variables, the image file, the remote service)   *)
(* is chosen nondeterministically.  Informational prints of result fields  *)
(* are not recorded in log; error, failure and completion messages are.    *)
(***************************************************************************)
EXTENDS Integers, Sequences, FiniteSets, TLC

\* ------------------------------------------------------------------ bounds
MaxItems == 2       \* longest list of objects / lines / faces / annotations
MaxBlocks == 1      \* most OCR blocks in a response
MaxCoord == 2       \* OCR polygon coordinates range over 0..MaxCoord
MaxScore == 2       \* emotion scores range over 0..MaxScore
MaxEmotions == 3    \* most entries of an emotion map

\* ------------------------------------------------------------- entry points
MainDrivers == {"demo_image_analysis", "demo_ocr", "demo_face_detection",
                "demo_image_description"}
MainEntries == MainDrivers \cup {"analyze_image", "save_image_with_annotations"}
SdkEntries == {"OCR", "caption", "sample_objects_image_file"}
Entries == MainEntries \cup SdkEntries

\* The request function a main.py entry point runs.
ReqFn(e) ==
    CASE e = "demo_ocr" -> "read_image_text"
      [] e = "demo_face_detection" -> "detect_faces"
      [] OTHER -> "analyze_image"

\* ------------------------------------------------------------------ values
EnvValues == {"unset", "", "set"}
FileStates == {"missing", "notimage", "image"}

FeatureKeys == {"tags", "objects", "caption", "denseCaptions", "smartCrops"}
DefaultFeatures == {"tags", "objects", "caption"}

\* features argument: Python None, or a list (modelled by its set of names)
PyNone == [isNone |-> TRUE, fs |-> {}]
PyList(s) == [isNone |-> FALSE, fs |-> s]

\* analyze_image: `if not features: features = [...]` -- None and [] are both falsy
EffectiveFeatures(f) ==
    IF f.isNone \/ f.fs = {} THEN DefaultFeatures ELSE f.fs

\* What each entry point passes as `features` (fixed by the code, except for a
\* direct call of analyze_image, where the caller chooses).
PassedChoices(e) ==
    CASE e = "analyze_image" -> {PyNone} \cup {PyList(s) : s \in SUBSET FeatureKeys}
      [] e = "demo_image_analysis" -> {PyList(FeatureKeys)}
      [] e = "demo_image_description" -> {PyList({"caption", "denseCaptions"})}
      [] OTHER -> {PyNone}

\* the "features" query parameter actually sent
SentFeatures(e, f) ==
    CASE ReqFn(e) = "analyze_image" -> EffectiveFeatures(f)
      [] ReqFn(e) = "read_image_text" -> {"read"}
      [] OTHER -> {}

\* ------------------------------------------------------- annotation boxes
\* demo_ocr: x = bb[0], y = bb[1], w = bb[2] - x, h = bb[5] - y  (0-based in
\* the source, 1-based here)
OcrBox(bb) == <<bb[1], bb[2], bb[3] - bb[1], bb[6] - bb[2]>>

Min2(a, b) == IF a <= b THEN a ELSE b
Max2(a, b) == IF a >= b THEN a ELSE b
MinX(bb) == Min2(Min2(bb[1], bb[3]), Min2(bb[5], bb[7]))
MinY(bb) == Min2(Min2(bb[2], bb[4]), Min2(bb[6], bb[8]))
MaxX(bb) == Max2(Max2(bb[1], bb[3]), Max2(bb[5], bb[7]))
MaxY(bb) == Max2(Max2(bb[2], bb[4]), Max2(bb[6], bb[8]))
\* the minimum enclosing axis-aligned rectangle of the polygon
EnclosingBox(bb) == <<MinX(bb), MinY(bb), MaxX(bb) - MinX(bb), MaxY(bb) - MinY(bb)>>

Quads == [1..8 -> 0..MaxCoord]

\* --------------------------------------------------------- dominant emotion
EmotionLabels == {"anger", "happiness", "neutral", "sadness"}

\* An emotion map in iteration order: a sequence of <<label, score>> pairs with
\* distinct labels (a JSON object decoded into a dict keeps insertion order).
EmotionMaps ==
    UNION { { m \in [1..n -> EmotionLabels \X (0..MaxScore)] :
                \A i, j \in 1..n : i # j => m[i][1] # m[j][1] }
            : n \in 0..MaxEmotions }

\* max(items, key=lambda x: x[1]): the running best is replaced only by a
\* strictly greater key, so the first maximal item wins.
RECURSIVE PyMaxFrom(_, _, _)
PyMaxFrom(m, i, best) ==
    IF i > Len(m) THEN best
    ELSE PyMaxFrom(m, i + 1, IF m[i][2] > best[2] THEN m[i] ELSE best)

\* variant: the running best is replaced by an equal key too (last maximum)
RECURSIVE PyMaxLastFrom(_, _, _)
PyMaxLastFrom(m, i, best) ==
    IF i > Len(m) THEN best
    ELSE PyMaxLastFrom(m, i + 1, IF m[i][2] >= best[2] THEN m[i] ELSE best)

DominantEmotion_Last(m) == PyMaxLastFrom(m, 2, m[1])[1]

\* emotion = max(face["faceAttributes"]["emotion"].items(), key=...)[0]
\* (max of an empty sequence raises ValueError; callers guard Len(m) > 0)
DominantEmotion(m) == PyMaxFrom(m, 2, m[1])[1]

\* ------------------------------------------------------------ JSON values
\* A decoded response body.  top: a JSON object ("dict") or array ("list").
\* fields: the top-level keys of an object.  captionOK: results["caption"] has
\* "text" and "confidence".  listOK: every element of "tags" / "denseCaptions"
\* has the keys the driver reads.  items: the objects, the OCR blocks or the
\* faces, each with ok = FALSE when a key the driver reads is missing.
Json(top, fields, captionOK, listOK, items) ==
    [top |-> top, fields |-> fields, captionOK |-> captionOK,
     listOK |-> listOK, items |-> items]
EmptyJson == Json("dict", {}, TRUE, TRUE, <<>>)

\* Python truthiness of a decoded body: {} and [] are falsy
Truthy(j) == IF j.top = "list" THEN j.items # <<>> ELSE j.fields # {}

SeqsUpTo(S, n) == UNION { [1..k -> S] : k \in 0..n }

ObjItems ==
    { [ok |-> TRUE, name |-> "cat", rect |-> <<1, 1, 2, 1>>],
      [ok |-> FALSE, name |-> "cat", rect |-> <<1, 1, 2, 1>>] }
LineItems ==
    { [ok |-> TRUE, text |-> "axis", boundingBox |-> <<1, 1, 3, 1, 3, 2, 1, 2>>],
      [ok |-> TRUE, text |-> "skew", boundingBox |-> <<2, 0, 4, 2, 2, 4, 0, 2>>],
      [ok |-> FALSE, text |-> "axis", boundingBox |-> <<1, 1, 3, 1, 3, 2, 1, 2>>] }
BlockItems ==
    { [ok |-> o, lines |-> ls] : o \in {TRUE}, ls \in SeqsUpTo(LineItems, MaxItems) }
      \cup { [ok |-> FALSE, lines |-> <<>>] }
FaceItems ==
    { [ok |-> TRUE, rect |-> <<1, 1, 2, 2>>, age |-> 30, gender |-> "male",
       emotion |-> <<<<"neutral", 1>>, <<"happiness", 2>>, <<"sadness", 2>>>>],
      [ok |-> FALSE, rect |-> <<1, 1, 2, 2>>, age |-> 30, gender |-> "male",
       emotion |-> <<<<"neutral", 1>>, <<"happiness", 2>>, <<"sadness", 2>>>>] }

\* The decoded bodies the service may answer an entry point's request with.
\* The code does not constrain the service: any set of top-level keys.  items
\* are results["objects"], ocr_results["readResult"]["blocks"] or the face
\* list, so there are none without the key that holds them.
JsonBodies(e) ==
    CASE e = "analyze_image" ->
           { Json("dict", f, TRUE, TRUE, <<>>) : f \in SUBSET FeatureKeys }
      [] e = "demo_image_analysis" ->
           { j \in { Json("dict", f, c, l, its) :
                       f \in SUBSET {"caption", "tags", "objects", "metadata"},
                       c \in BOOLEAN, l \in BOOLEAN,
                       its \in SeqsUpTo(ObjItems, MaxItems) } :
               "objects" \notin j.fields => j.items = <<>> }
      [] e = "demo_image_description" ->
           { Json("dict", f, c, l, <<>>) :
               f \in SUBSET {"caption", "denseCaptions", "metadata"},
               c \in BOOLEAN, l \in BOOLEAN }
      [] e = "demo_ocr" ->
           { j \in { Json("dict", f, TRUE, TRUE, its) :
                       f \in SUBSET {"readResult", "metadata"},
                       its \in SeqsUpTo(BlockItems, MaxBlocks) } :
               "readResult" \notin j.fields => j.items = <<>> }
      [] e = "demo_face_detection" ->
           { Json("list", {}, TRUE, TRUE, its) : its \in SeqsUpTo(FaceItems, MaxItems) }
      [] OTHER -> {}

\* --------------------------------------------------------- HTTP responses
Statuses == {200, 304, 404, 500}
\* Response.raise_for_status raises HTTPError for 4xx and 5xx
RaisesForStatus(s) == 400 <= s /\ s < 600
Is2xx(s) == 200 <= s /\ s < 300

NoResponse == [kind |-> "none", status |-> 0, text |-> "", isJson |-> FALSE, val |-> EmptyJson]
TransportFailure ==
    [kind |-> "transport", status |-> 0, text |-> "", isJson |-> FALSE, val |-> EmptyJson]
HttpResponse(s, text, isJson, val) ==
    [kind |-> "http", status |-> s, text |-> text, isJson |-> isJson, val |-> val]

Responses(e) ==
    {TransportFailure}
      \cup { HttpResponse(s, "error-body", FALSE, EmptyJson) : s \in {404, 500} }
      \cup { HttpResponse(304, "", FALSE, EmptyJson) }
      \cup { HttpResponse(200, "not-json", FALSE, EmptyJson) }
      \cup { HttpResponse(200, "json", TRUE, j) : j \in JsonBodies(e) }

\* ---------------------------------------------------- values and messages
\* What a request function returns.  kind: "unset" (not returned yet), "None",
\* or "json" (the decoded body, in val).  status and body are carried by no
\* value the code builds; they are fields of the error value the spec names.
RetUnset == [kind |-> "unset", status |-> 0, body |-> "", val |-> EmptyJson]
RetNone == [kind |-> "None", status |-> 0, body |-> "", val |-> EmptyJson]
RetJson(j) == [kind |-> "json", status |-> 0, body |-> "", val |-> j]

\* a printed line: who printed it, the text, and for "Error in <fn>: {e}" the
\* exception's type and (HTTPError only) the status code its message holds
Line(who, text) == [who |-> who, text |-> text, exc |-> "", status |-> 0]
ErrLine(fn, exc, status) ==
    [who |-> fn, text |-> "Error in", exc |-> exc, status |-> status]

FailureText(e) ==
    CASE e = "demo_image_analysis" -> "Failed to analyze image."
      [] e = "demo_ocr" -> "Failed to extract text from image."
      [] e = "demo_face_detection" -> "Failed to detect faces or no faces found."
      [] OTHER -> "Failed to generate description."
CompletedText(e) ==
    CASE e = "demo_image_analysis" -> "Image analysis completed!"
      [] e = "demo_ocr" -> "OCR processing completed!"
      [] e = "demo_face_detection" -> "Face detection completed!"
      [] OTHER -> "Image description completed!"

\* ------------------------------------------------------------- annotations
Annotation(box, label) == [box |-> box, label |-> label]
SampleAnnotations == { Annotation(<<10, 10, 50, 20>>, <<"Cat">>),
                       Annotation(<<1, 1, 2, 1>>, <<"cat">>) }

\* one annotation's drawing: the outlined rectangle and the label above it
DrawOps(a) ==
    << [op |-> "rectangle", at |-> <<a.box[1], a.box[2]>>,
        to |-> <<a.box[1] + a.box[3], a.box[2] + a.box[4]>>, label |-> <<>>],
       [op |-> "text", at |-> <<a.box[1], a.box[2] - 20>>,
        to |-> <<a.box[1], a.box[2] - 20>>, label |-> a.label] >>

\* An image's pixel content is the sequence of drawing operations applied to
\* the decoded file (<<>>: the file's own pixels).
RECURSIVE DrawAll(_, _)
DrawAll(pix, anns) ==
    IF anns = <<>> THEN pix
    ELSE DrawAll(pix \o DrawOps(Head(anns)), Tail(anns))

Unallocated == << [op |-> "unallocated", at |-> <<0, 0>>, to |-> <<0, 0>>, label |-> <<>>] >>

\* ------------------------------------------------------------------- state
VARIABLES
    entry,        \* the entry point this run executes
    env,          \* [endpoint, key]: VISION_ENDPOINT / VISION_KEY in the environment
    fileState,    \* the image file: missing, readable but no image, an image
    passed,       \* the features argument the caller passes
    pc,           \* position of the run
    imageData,    \* "none" or "read": image_data holds the whole file
    posts,        \* calls of requests.post made
    wire,         \* HTTP requests actually sent to the service
    resp,         \* the response object of the POST
    ret,          \* what the request function returned
    log,          \* printed lines
    img,          \* the driver's img: "unset", "None" or "loaded"
    heap,         \* pixel content of the image objects: img and img.copy()
    target,       \* the image object handed to save_image_with_annotations
    argBefore,    \* that object's pixel content when the renderer was called
    annotations,  \* the annotation list built so far / passed to the renderer
    bi, li,       \* loop positions: block (or item) index, line index
    outWrites,    \* contents written to the output path, in order
    outcome,      \* how the run ended: "running", "returned", "exit", or an exception
    bbIn, boxOut, \* OCR box derivation on its own: polygon in, annotation box out
    emoIn, emoOut \* dominant emotion on its own: emotion map in, label out

runVars == <<entry, env, fileState, passed, pc, imageData, posts, wire, resp, ret,
             log, img, heap, target, argBefore, annotations, bi, li, outWrites,
             outcome>>
pureVars == <<bbIn, boxOut, emoIn, emoOut>>
vars == <<runVars, pureVars>>

NoQuad == [i \in 1..8 |-> 0]

PureIdle ==
    /\ bbIn = NoQuad /\ boxOut = <<>>
    /\ emoIn = <<>> /\ emoOut = ""

RunStart(e) ==
    /\ entry = e
    /\ pc = "import"
    /\ imageData = "none"
    /\ posts = 0 /\ wire = 0
    /\ resp = NoResponse
    /\ ret = RetUnset
    /\ log = <<>>
    /\ img = "unset"
    /\ heap = [img |-> Unallocated, copy |-> Unallocated]
    /\ target = "none"
    /\ argBefore = Unallocated
    /\ bi = 1 /\ li = 1
    /\ outWrites = <<>>
    /\ outcome = "running"

Init ==
    /\ \E e \in Entries : RunStart(e)
    /\ env \in [endpoint : EnvValues, key : EnvValues]
    /\ fileState \in FileStates
    /\ passed \in PassedChoices(entry)
    \* a direct call of the renderer is given its annotation list by the caller
    /\ annotations \in IF entry = "save_image_with_annotations"
                         THEN SeqsUpTo(SampleAnnotations, MaxItems) ELSE {<<>>}
    /\ PureIdle

\* ------------------------------------------------------------ module import
\* main.py, module level: ENDPOINT = os.environ["VISION_ENDPOINT"], API_KEY =
\* os.environ["VISION_KEY"].  A missing variable raises KeyError; an empty string
\* is accepted.  No other check of the two values is made before a request.
EnvLookupRaises(e) == e.endpoint = "unset" \/ e.key = "unset"

FirstStep(e) ==
    CASE e \in MainDrivers -> "display"
      [] e = "analyze_image" -> "req_open"
      [] OTHER -> "render_call"

ImportMain ==
    /\ pc = "import" /\ entry \in MainEntries
    /\ IF EnvLookupRaises(env)
         THEN /\ pc' = "done" /\ outcome' = "KeyError"
         ELSE /\ pc' = FirstStep(entry) /\ outcome' = outcome
    /\ UNCHANGED <<entry, env, fileState, passed, imageData, posts, wire, resp, ret,
                   log, img, heap, target, argBefore, annotations, bi, li, outWrites>>
    /\ UNCHANGED pureVars

\* display_image: Image.open, or print the error and return None
DisplayImage ==
    /\ pc = "display"
    /\ IF fileState = "image"
         THEN /\ img' = "loaded"
              /\ heap' = [heap EXCEPT !.img = <<>>]
              /\ log' = log
         ELSE /\ img' = "None"
              /\ heap' = heap
              /\ log' = Append(log, Line("display_image", "Error displaying image"))
    /\ pc' = "req_open"
    /\ UNCHANGED <<entry, env, fileState, passed, imageData, posts, wire, resp, ret,
                   target, argBefore, annotations, bi, li, outWrites, outcome>>
    /\ UNCHANGED pureVars

\* --------------------------------------------- the three request functions
\* analyze_image, read_image_text and detect_faces share one body: read the
\* file, POST, raise_for_status, decode; `except Exception as e` prints
\* "Error in <fn>: {e}" and returns None.
AfterRequest(e) == IF e = "analyze_image" THEN "done" ELSE "after_call"

\* the except clause: the exception is printed and None is returned
Handled(exc, status) ==
    /\ log' = Append(log, ErrLine(ReqFn(entry), exc, status))
    /\ ret' = RetNone
    /\ pc' = AfterRequest(entry)
    /\ outcome' = IF entry = "analyze_image" THEN "returned" ELSE outcome

\* with open(image_path, "rb") as image_file: image_data = image_file.read()
ReqReadImage ==
    /\ pc = "req_open"
    /\ IF fileState = "missing"
         THEN /\ Handled("FileNotFoundError", 0)
              /\ imageData' = imageData
         ELSE /\ imageData' = "read"
              /\ pc' = "req_post"
              /\ UNCHANGED <<log, ret, outcome>>
    /\ UNCHANGED <<entry, env, fileState, passed, posts, wire, resp, img, heap,
                   target, argBefore, annotations, bi, li, outWrites>>
    /\ UNCHANGED pureVars

\* response = requests.post(url, headers=..., params=..., data=image_data)
\* The URL is f"{ENDPOINT}...": with ENDPOINT = "" it has no scheme and requests
\* raises (MissingSchema / InvalidSchema) before anything is sent.  Otherwise one request goes
\* out, with whatever API_KEY holds in the subscription-key header.
ReqPost ==
    /\ pc = "req_post"
    /\ posts' = posts + 1
    /\ IF env.endpoint = ""
         THEN /\ Handled("MissingSchema", 0)
              /\ UNCHANGED <<wire, resp>>
         ELSE /\ wire' = wire + 1
              /\ \E r \in Responses(entry) :
                    /\ resp' = r
                    /\ IF r.kind = "transport"
                         THEN Handled("ConnectionError", 0)
                         ELSE /\ pc' = "req_status"
                              /\ UNCHANGED <<log, ret, outcome>>
    /\ UNCHANGED <<entry, env, fileState, passed, imageData, img, heap,
                   target, argBefore, annotations, bi, li, outWrites>>
    /\ UNCHANGED pureVars

\* variant: a 5xx answer sends the function back to the POST
ReqRaiseForStatus_Retry ==
    /\ pc = "req_status"
    /\ IF RaisesForStatus(resp.status)
         THEN IF resp.status >= 500
                THEN pc' = "req_post" /\ UNCHANGED <<log, ret, outcome>>
                ELSE Handled("HTTPError", resp.status)
         ELSE /\ pc' = "req_json"
              /\ UNCHANGED <<log, ret, outcome>>
    /\ UNCHANGED <<entry, env, fileState, passed, imageData, posts, wire, resp, img,
                   heap, target, argBefore, annotations, bi, li, outWrites>>
    /\ UNCHANGED pureVars

\* response.raise_for_status()
ReqRaiseForStatus ==
    /\ pc = "req_status"
    /\ IF RaisesForStatus(resp.status)
         THEN Handled("HTTPError", resp.status)
         ELSE /\ pc' = "req_json"
              /\ UNCHANGED <<log, ret, outcome>>
    /\ UNCHANGED <<entry, env, fileState, passed, imageData, posts, wire, resp, img,
                   heap, target, argBefore, annotations, bi, li, outWrites>>
    /\ UNCHANGED pureVars

\* return response.json()
ReqJson ==
    /\ pc = "req_json"
    /\ IF resp.isJson
         THEN /\ ret' = RetJson(resp.val)
              /\ pc' = AfterRequest(entry)
              /\ outcome' = IF entry = "analyze_image" THEN "returned" ELSE outcome
              /\ log' = log
         ELSE Handled("JSONDecodeError", 0)
    /\ UNCHANGED <<entry, env, fileState, passed, imageData, posts, wire, resp, img,
                   heap, target, argBefore, annotations, bi, li, outWrites>>
    /\ UNCHANGED pureVars

\* ------------------------------------------------------------ demo drivers
\* an exception no handler catches ends the run
Raise(exc) == pc' = "done" /\ outcome' = exc

\* the guard after the request:
\*   demo_image_analysis     if not results
\*   demo_ocr                if not ocr_results or "readResult" not in ocr_results
\*   demo_face_detection     if not face_results
\*   demo_image_description  if not description_results or "caption" not in ...
ReportsFailure(e, r) ==
    \/ r.kind = "None"
    \/ ~Truthy(r.val)
    \/ e = "demo_ocr" /\ "readResult" \notin r.val.fields
    \/ e = "demo_image_description" /\ "caption" \notin r.val.fields

DriverCheck ==
    /\ pc = "after_call"
    /\ IF ReportsFailure(entry, ret)
         THEN /\ log' = Append(log, Line(entry, FailureText(entry)))
              /\ pc' = "done" /\ outcome' = "returned"
         ELSE /\ pc' = IF entry \in {"demo_ocr", "demo_face_detection"}
                         THEN "loop" ELSE "caption"
              /\ UNCHANGED <<log, outcome>>
    /\ UNCHANGED <<entry, env, fileState, passed, imageData, posts, wire, resp, ret,
                   img, heap, target, argBefore, annotations, bi, li, outWrites>>
    /\ UNCHANGED pureVars

\* results["caption"]["text"], results["caption"]["confidence"]
ParseCaption ==
    /\ pc = "caption"
    /\ IF "caption" \in ret.val.fields /\ ~ret.val.captionOK
         THEN Raise("KeyError")
         ELSE pc' = "list" /\ outcome' = outcome
    /\ UNCHANGED <<entry, env, fileState, passed, imageData, posts, wire, resp, ret,
                   log, img, heap, target, argBefore, annotations, bi, li, outWrites>>
    /\ UNCHANGED pureVars

\* demo_image_analysis: for tag in results["tags"], then `if "objects" in results`
\* demo_image_description: for caption in description_results["denseCaptions"]
ListKey(e) == IF e = "demo_image_analysis" THEN "tags" ELSE "denseCaptions"

ParseList ==
    /\ pc = "list"
    /\ IF ListKey(entry) \in ret.val.fields /\ ~ret.val.listOK
         THEN Raise("KeyError")
         ELSE /\ pc' = IF entry = "demo_image_analysis" /\ "objects" \in ret.val.fields
                         THEN "loop" ELSE "finish"
              /\ outcome' = outcome
    /\ UNCHANGED <<entry, env, fileState, passed, imageData, posts, wire, resp, ret,
                   log, img, heap, target, argBefore, annotations, bi, li, outWrites>>
    /\ UNCHANGED pureVars

\* variant: an object without the expected keys ends the loop and the
\* annotations collected so far go on to be saved
LoopObjects_SkipBad ==
    /\ pc = "loop" /\ entry = "demo_image_analysis"
    /\ IF bi > Len(ret.val.items)
         THEN /\ pc' = "save"
              /\ UNCHANGED <<annotations, bi, outcome>>
         ELSE LET obj == ret.val.items[bi] IN
              IF obj.ok
                THEN /\ annotations' = Append(annotations, Annotation(obj.rect, <<obj.name>>))
                     /\ bi' = bi + 1
                     /\ UNCHANGED <<pc, outcome>>
                ELSE /\ pc' = "save"
                     /\ UNCHANGED <<annotations, bi, outcome>>
    /\ UNCHANGED <<entry, env, fileState, passed, imageData, posts, wire, resp, ret,
                   log, img, heap, target, argBefore, li, outWrites>>
    /\ UNCHANGED pureVars

\* demo_image_analysis: one iteration of `for obj in results["objects"]`
LoopObjects ==
    /\ pc = "loop" /\ entry = "demo_image_analysis"
    /\ IF bi > Len(ret.val.items)
         THEN /\ pc' = "save"
              /\ UNCHANGED <<annotations, bi, outcome>>
         ELSE LET obj == ret.val.items[bi] IN
              IF obj.ok
                THEN /\ annotations' = Append(annotations, Annotation(obj.rect, <<obj.name>>))
                     /\ bi' = bi + 1
                     /\ UNCHANGED <<pc, outcome>>
                ELSE /\ Raise("KeyError")
                     /\ UNCHANGED <<annotations, bi>>
    /\ UNCHANGED <<entry, env, fileState, passed, imageData, posts, wire, resp, ret,
                   log, img, heap, target, argBefore, li, outWrites>>
    /\ UNCHANGED pureVars

\* demo_ocr: one step of `for block in ...["blocks"]: for line in block["lines"]`
LoopLines ==
    /\ pc = "loop" /\ entry = "demo_ocr"
    /\ IF bi > Len(ret.val.items)
         THEN /\ pc' = "save"
              /\ UNCHANGED <<annotations, bi, li, outcome>>
         ELSE LET block == ret.val.items[bi] IN
              IF ~block.ok
                THEN /\ Raise("KeyError")
                     /\ UNCHANGED <<annotations, bi, li>>
                ELSE IF li > Len(block.lines)
                       THEN /\ bi' = bi + 1 /\ li' = 1
                            /\ UNCHANGED <<pc, annotations, outcome>>
                       ELSE LET line == block.lines[li] IN
                            IF line.ok
                              THEN /\ annotations' =
                                        Append(annotations,
                                               Annotation(OcrBox(line.boundingBox),
                                                          <<line.text>>))
                                   /\ li' = li + 1
                                   /\ UNCHANGED <<pc, bi, outcome>>
                              ELSE /\ Raise("KeyError")
                                   /\ UNCHANGED <<annotations, bi, li>>
    /\ UNCHANGED <<entry, env, fileState, passed, imageData, posts, wire, resp, ret,
                   log, img, heap, target, argBefore, outWrites>>
    /\ UNCHANGED pureVars

\* label = f"Age: {int(age)}, {gender[0].upper()}"
FaceLabel(face) == <<"Age", face.age, IF face.gender = "male" THEN "M" ELSE "F">>

\* demo_face_detection: one iteration of `for i, face in enumerate(face_results)`
LoopFaces ==
    /\ pc = "loop" /\ entry = "demo_face_detection"
    /\ IF bi > Len(ret.val.items)
         THEN /\ pc' = "save"
              /\ UNCHANGED <<annotations, bi, log, outcome>>
         ELSE LET face == ret.val.items[bi] IN
              IF face.ok
                THEN /\ annotations' = Append(annotations,
                                              Annotation(face.rect, FaceLabel(face)))
                     /\ log' = Append(log, Line(entry, DominantEmotion(face.emotion)))
                     /\ bi' = bi + 1
                     /\ UNCHANGED <<pc, outcome>>
                ELSE /\ Raise("KeyError")
                     /\ UNCHANGED <<annotations, bi, log>>
    /\ UNCHANGED <<entry, env, fileState, passed, imageData, posts, wire, resp, ret,
                   img, heap, target, argBefore, li, outWrites>>
    /\ UNCHANGED pureVars

\* `if img and annotations:` -- the driver renders only a non-empty list
DriverRenders(i, anns) == i = "loaded" /\ anns # <<>>

\* variant: the driver hands img itself to the renderer
DriverTarget_Original == "img"

\* the object the driver hands to the renderer: img.copy()
DriverTarget == "copy"

\* if img and annotations: save_image_with_annotations(img.copy(), annotations, path)
DriverSave ==
    /\ pc = "save"
    /\ IF DriverRenders(img, annotations)
         THEN /\ heap' = [heap EXCEPT !.copy = heap.img]
              /\ target' = DriverTarget
              /\ argBefore' = heap'[DriverTarget]
              /\ pc' = "render"
         ELSE /\ pc' = "finish"
              /\ UNCHANGED <<heap, target, argBefore>>
    /\ UNCHANGED <<entry, env, fileState, passed, imageData, posts, wire, resp, ret,
                   log, img, annotations, bi, li, outWrites, outcome>>
    /\ UNCHANGED pureVars

\* print("\n... completed!")
DriverFinish ==
    /\ pc = "finish"
    /\ log' = Append(log, Line(entry, CompletedText(entry)))
    /\ pc' = "done" /\ outcome' = "returned"
    /\ UNCHANGED <<entry, env, fileState, passed, imageData, posts, wire, resp, ret,
                   img, heap, target, argBefore, annotations, bi, li, outWrites>>
    /\ UNCHANGED pureVars

\* ------------------------------------------------------ annotation renderer
\* a caller other than the drivers calls the renderer with its own image
CallerRender ==
    /\ pc = "render_call"
    /\ img' = "loaded"
    /\ heap' = [heap EXCEPT !.img = <<>>]
    /\ target' = "img"
    /\ argBefore' = <<>>
    /\ pc' = "render"
    /\ UNCHANGED <<entry, env, fileState, passed, imageData, posts, wire, resp, ret,
                   log, annotations, bi, li, outWrites, outcome>>
    /\ UNCHANGED pureVars

\* img_draw = ImageDraw.Draw(original_image): the drawing goes onto the object
\* passed in; every annotation is drawn, in order
Rendered(pix, anns) == DrawAll(pix, anns)

\* variant: with nothing to draw the renderer returns without saving
SaveImageWithAnnotations_SkipEmpty ==
    /\ pc = "render"
    /\ heap' = [heap EXCEPT ![target] = Rendered(heap[target], annotations)]
    /\ IF annotations = <<>>
         THEN UNCHANGED <<outWrites, log>>
         ELSE /\ outWrites' = Append(outWrites, heap'[target])
              /\ log' = Append(log, Line("save_image_with_annotations",
                                         "Annotated image saved to"))
    /\ IF entry \in MainDrivers
         THEN pc' = "finish" /\ outcome' = outcome
         ELSE pc' = "done" /\ outcome' = "returned"
    /\ UNCHANGED <<entry, env, fileState, passed, imageData, posts, wire, resp, ret,
                   img, target, argBefore, annotations, bi, li>>
    /\ UNCHANGED pureVars

\* save_image_with_annotations(original_image, annotations, output_path): draw
\* on original_image, original_image.save(output_path), return original_image
SaveImageWithAnnotations ==
    /\ pc = "render"
    /\ heap' = [heap EXCEPT ![target] = Rendered(heap[target], annotations)]
    /\ outWrites' = Append(outWrites, heap'[target])
    /\ log' = Append(log, Line("save_image_with_annotations", "Annotated image saved to"))
    /\ IF entry \in MainDrivers
         THEN pc' = "finish" /\ outcome' = outcome
         ELSE pc' = "done" /\ outcome' = "returned"
    /\ UNCHANGED <<entry, env, fileState, passed, imageData, posts, wire, resp, ret,
                   img, target, argBefore, annotations, bi, li>>
    /\ UNCHANGED pureVars

\* -------------------------------------------------------------- SDK samples
\* OCR(), caption(), sample_objects_image_file():
\*   endpoint = os.getenv(...); key = os.getenv(...)
\*   if not endpoint or not key: print(...); exit()
ConfigMissing(e) == e.endpoint \in {"unset", ""} \/ e.key \in {"unset", ""}

SdkCheckConfig ==
    /\ pc = "import" /\ entry \in SdkEntries
    /\ IF ConfigMissing(env)
         THEN /\ log' = Append(log, Line(entry, "Missing environment variable"))
              /\ pc' = "done" /\ outcome' = "exit"
         ELSE /\ pc' = "sdk_read"
              /\ UNCHANGED <<log, outcome>>
    /\ UNCHANGED <<entry, env, fileState, passed, imageData, posts, wire, resp, ret,
                   img, heap, target, argBefore, annotations, bi, li, outWrites>>
    /\ UNCHANGED pureVars

\* with open("...jpg", "rb") as f: image_data = f.read()   (no handler)
SdkReadImage ==
    /\ pc = "sdk_read"
    /\ IF fileState = "missing"
         THEN Raise("FileNotFoundError") /\ imageData' = imageData
         ELSE pc' = "sdk_analyze" /\ imageData' = "read" /\ outcome' = outcome
    /\ UNCHANGED <<entry, env, fileState, passed, posts, wire, resp, ret, log,
                   img, heap, target, argBefore, annotations, bi, li, outWrites>>
    /\ UNCHANGED pureVars

\* result = client.analyze(image_data=..., visual_features=[...]), then the prints
SdkAnalyze ==
    /\ pc = "sdk_analyze"
    /\ wire' = wire + 1
    /\ \E ok \in BOOLEAN :
          IF ok
            THEN /\ log' = Append(log, Line(entry, "Image analysis results:"))
                 /\ pc' = "done" /\ outcome' = "returned"
            ELSE /\ Raise("HttpResponseError")
                 /\ log' = log
    /\ UNCHANGED <<entry, env, fileState, passed, imageData, posts, resp, ret,
                   img, heap, target, argBefore, annotations, bi, li, outWrites>>
    /\ UNCHANGED pureVars

Next ==
    \/ ImportMain
    \/ DisplayImage
    \/ ReqReadImage
    \/ ReqPost
    \/ ReqRaiseForStatus
    \/ ReqJson
    \/ DriverCheck
    \/ ParseCaption
    \/ ParseList
    \/ LoopObjects
    \/ LoopLines
    \/ LoopFaces
    \/ DriverSave
    \/ DriverFinish
    \/ CallerRender
    \/ SaveImageWithAnnotations
    \/ SdkCheckConfig
    \/ SdkReadImage
    \/ SdkAnalyze

Spec == Init /\ [][Next]_vars

\* ---------------------------------------- the two pure derivations alone
RunIdle ==
    /\ RunStart("demo_ocr")
    /\ env = [endpoint |-> "set", key |-> "set"]
    /\ fileState = "image"
    /\ passed = PyNone
    /\ annotations = <<>>

\* demo_ocr's box derivation applied to every polygon over 0..MaxCoord
InitBox ==
    /\ RunIdle
    /\ bbIn \in Quads /\ boxOut = <<>>
    /\ emoIn = <<>> /\ emoOut = ""

DeriveBox ==
    /\ boxOut = <<>>
    /\ boxOut' = OcrBox(bbIn)
    /\ UNCHANGED <<bbIn, emoIn, emoOut>>
    /\ UNCHANGED runVars

SpecBox == InitBox /\ [][DeriveBox]_vars

\* demo_face_detection's emotion choice applied to every non-empty emotion map
InitEmotion ==
    /\ RunIdle
    /\ bbIn = NoQuad /\ boxOut = <<>>
    /\ emoIn \in EmotionMaps \ {<<>>} /\ emoOut = ""

DeriveEmotion ==
    /\ emoOut = ""
    /\ emoOut' = DominantEmotion(emoIn)
    /\ UNCHANGED <<bbIn, boxOut, emoIn>>
    /\ UNCHANGED runVars

SpecEmotion == InitEmotion /\ [][DeriveEmotion]_vars

\* ============================================================== properties
RequestEntries == Entries \ {"save_image_with_annotations"}
LastLine == log[Len(log)]
\* both configuration values are present and non-empty
Configured == ~ConfigMissing(env)

\* C1: in every run of a request entry point, an HTTP request is sent only
\* when both the endpoint and the key are present and non-empty.
C1_RequestOnlyWhenConfigured ==
    (entry \in RequestEntries /\ wire > 0) => ~ConfigMissing(env)

\* C2: when the POST of a request function completes with a non-2xx status,
\* what the function returns is an API error carrying that status code and
\* the response body.
C2_ApiErrorCarriesStatusAndBody ==
    (Configured /\ entry \in MainEntries /\ ret.kind # "unset"
       /\ resp.kind = "http" /\ ~Is2xx(resp.status))
    => (ret.kind = "ApiError" /\ ret.status = resp.status /\ ret.body = resp.text)

\* C3: a run of analyze_image, read_image_text or detect_faces issues at most
\* one POST whatever the outcome, only after the image file was read
\* completely, and none when the image cannot be read.
C3_AtMostOnePostAfterRead ==
    entry \in MainEntries =>
        /\ posts <= 1
        /\ wire <= posts
        /\ (posts > 0 => imageData = "read")
        /\ (fileState = "missing" => posts = 0)

C3_Witness ==
    /\ Configured
    /\ entry = "demo_face_detection" /\ pc = "done"
    /\ posts = 1 /\ wire = 1
    /\ resp.kind = "http" /\ resp.status = 500
    /\ ret.kind = "None"

\* C4: the annotation box demo_ocr derives from an 8-number polygon is the
\* polygon's minimum enclosing axis-aligned rectangle.
C4_BoxIsEnclosingRectangle ==
    boxOut # <<>> => boxOut = EnclosingBox(bbIn)

\* C5: the dominant emotion of a non-empty emotion map is a label of maximal
\* score, and among the labels of maximal score the first in iteration order.
C5_DominantIsFirstMaximum ==
    emoOut # "" =>
        \E i \in 1..Len(emoIn) :
            /\ emoIn[i][1] = emoOut
            /\ \A j \in 1..Len(emoIn) : emoIn[j][2] <= emoIn[i][2]
            /\ \A j \in 1..(i - 1) : emoIn[j][2] < emoIn[i][2]

\* a tie at the maximum whose first member is not the first entry of the map
C5_Witness ==
    /\ emoOut # ""
    /\ Len(emoIn) = 3
    /\ emoIn[1][2] < emoIn[2][2]
    /\ emoIn[2][2] = emoIn[3][2]
    /\ emoOut = emoIn[2][1]

\* C6 (as stated): after a render call the image object handed to the
\* renderer has the pixel content it had before the call.
C6_RendererLeavesArgument ==
    (Configured /\ outWrites # <<>>) => heap[target] = argBefore

\* C6 (amended): the renderer draws in place on the object it is given, which
\* then holds the drawn annotations and is what is saved; each demo driver
\* hands it img.copy(), so the driver's own image keeps its pixel content.
C6_DrawsInPlaceDriversPassCopy ==
    outWrites # <<>> =>
        /\ heap[target] = argBefore \o DrawAll(<<>>, annotations)
        /\ outWrites = <<heap[target]>>
        /\ (entry \in MainDrivers => target = "copy" /\ heap.img = <<>>)

C6_Witness ==
    /\ Configured
    /\ entry = "demo_ocr" /\ pc = "done" /\ outcome = "returned"
    /\ outWrites # <<>>
    /\ heap.copy # <<>> /\ heap.img = <<>>

\* every element of the response the driver reads is well formed
AllElementsOK(e, j) ==
    /\ ("caption" \in j.fields => j.captionOK)
    /\ (ListKey(e) \in j.fields => j.listOK)
    /\ \A i \in 1..Len(j.items) :
          /\ j.items[i].ok
          /\ e = "demo_ocr" => \A k \in 1..Len(j.items[i].lines) : j.items[i].lines[k].ok

\* C7: a demo driver writes the annotated output file only after every
\* element of the response was parsed, and a run that ends in a parse failure
\* has written nothing.
C7_NoOutputOnParseFailure ==
    entry \in MainDrivers =>
        /\ (outWrites # <<>> =>
              /\ ret.kind = "json"
              /\ AllElementsOK(entry, ret.val)
              /\ bi = Len(ret.val.items) + 1)
        /\ (outcome = "KeyError" => outWrites = <<>>)

\* a parse failure after annotations were already collected
C7_Witness ==
    /\ Configured
    /\ entry = "demo_image_analysis" /\ pc = "done"
    /\ outcome = "KeyError"
    /\ img = "loaded" /\ annotations # <<>>
    /\ outWrites = <<>>

\* C8: on the face-detect and OCR paths a successful call with an empty
\* result (no face; a non-empty body without readResult) does not end in the
\* outcome of a failed call (the driver returning after its failure message).
C8_EmptyResultDistinctFromFailure ==
    (Configured /\ fileState = "image"
       /\ entry \in {"demo_face_detection", "demo_ocr"} /\ pc = "done"
       /\ outcome = "returned" /\ ret.kind = "json"
       /\ (entry = "demo_ocr" => Truthy(ret.val)))
    => LastLine # Line(entry, FailureText(entry))

\* C9: the feature fields populated in what analyze_image returns on success
\* are exactly the features the caller passed (stated for the responses that
\* hold at least every feature the request asked the service for).
C9_FieldsMatchRequested ==
    (Configured /\ entry = "analyze_image" /\ pc = "done" /\ ret.kind = "json"
       /\ SentFeatures(entry, passed) \subseteq ret.val.fields)
    => ret.val.fields \cap FeatureKeys = passed.fs

\* a rendering demo driver whose analysis succeeded, went through the (empty)
\* list of detections and completed
ZeroDetections ==
    /\ Configured
    /\ entry \in {"demo_image_analysis", "demo_ocr", "demo_face_detection"}
    /\ pc = "done" /\ outcome = "returned"
    /\ img = "loaded" /\ ret.kind = "json" /\ annotations = <<>>
    /\ (entry = "demo_image_analysis" => "objects" \in ret.val.fields)
    /\ LastLine = Line(entry, CompletedText(entry))

\* C10 (as stated): a render with no annotation writes the input image
\* unchanged, and a driver run with zero detections leaves such a file.
C10_EmptyRenderAlwaysWritten ==
    /\ (entry = "save_image_with_annotations" /\ pc = "done"
          /\ outcome = "returned" /\ annotations = <<>>
          => outWrites = <<argBefore>>)
    /\ (ZeroDetections => outWrites = <<heap.img>>)

\* C10 (amended): the renderer called with no annotation draws nothing and
\* saves the input image unchanged; a demo driver with no annotation never
\* calls the renderer and writes no output file.
C10_EmptyRenderIdenticalDriversSkip ==
    /\ (entry = "save_image_with_annotations" /\ pc = "done"
          /\ outcome = "returned" /\ annotations = <<>>
          => outWrites = <<argBefore>> /\ heap[target] = argBefore)
    /\ (entry \in MainDrivers /\ pc = "done" /\ annotations = <<>>
          => outWrites = <<>>)

C10_Witness ==
    /\ Configured
    /\ entry = "save_image_with_annotations" /\ pc = "done"
    /\ outcome = "returned" /\ annotations = <<>>
    /\ outWrites = <<argBefore>>

====
